---- MODULE Spec2Model ----
(***************************************************************************)
(* A model of .github/append_manifests.py: the command                    *)
(*     append_manifests YAML_FILE CONTENT_FILE KEY                         *)
(* loads YAML_FILE with yaml.safe_load, reads the lines of CONTENT_FILE,   *)
(* stores them under KEY and rewrites YAML_FILE with yaml.dump.            *)
(*                                                                         *)
(* Files are sequences of one-character strings.  The library calls the    *)
(* script makes (text-mode open, readlines, yaml.safe_load, yaml.dump) are *)
(* modelled on that representation for the YAML subset the model's files   *)
(* stay in: block mappings of scalars and of block sequences of scalars,   *)
(* plain, single-quoted and double-quoted scalars, the empty flow          *)
(* sequence.  A text outside the subset parses to the status "unsup";      *)
(* InSubset states that no run meets one.                                  *)
(***************************************************************************)
EXTENDS Naturals, Sequences, FiniteSets, TLC

\* ------------------------------------------------------------------ bounds
MaxLines == 2      \* lines in the content file
MaxRuns == 2       \* successive invocations with the same arguments
MaxArgs == 4       \* positional arguments given on the command line
MaxPartial == 3    \* characters a failing write leaves in the file
MaxText == 100     \* characters of a YAML file the command is run on again

\* -------------------------------------------------------------- characters
LF == "\n"
CR == "\r"
SP == " "
SQ == "'"
DQ == "\""
BS == "\\"
COLON == ":"
DASH == "-"
LB == "["
RB == "]"

\* The characters after which the emitter and the scanner see "whitespace".
IsWs(c) == c \in {SP, LF, CR, "\t"}

Str(s) == [t |-> "str", s |-> s]
Int(s) == [t |-> "int", s |-> s]
\* A node of a loaded document: a scalar (tag t, text s) or a sequence of scalars.
Scalar(sc) == [t |-> sc.t, s |-> sc.s, items |-> <<>>]
List(items) == [t |-> "seq", s |-> <<>>, items |-> items]

\* ------------------------------------------------- text-mode reads: open(.., "r")
\* newline=None: "\r\n" and a lone "\r" reach the program as "\n".
Translated(t) ==
  [i \in 1..Len(t) |->
     [c |-> IF t[i] = CR THEN LF ELSE t[i],
      keep |-> ~(t[i] = CR /\ i < Len(t) /\ t[i + 1] = LF)]]
Kept(r) == r.keep
Chars(m) == [i \in 1..Len(m) |-> m[i].c]
UniversalNewlines(t) == Chars(SelectSeq(Translated(t), Kept))

\* A line ends at every "\n" and at the end of a text that does not end in one.
Indices(u) == [i \in 1..Len(u) |-> [i |-> i, end |-> u[i] = LF \/ i = Len(u)]]
IsEnd(r) == r.end
LineEnds(u) == SelectSeq(Indices(u), IsEnd)
\* For comparison, str.splitlines(): the lines without their terminators.
Lines_stripped(u, ends) ==
  [n \in 1..Len(ends) |->
     SubSeq(u, IF n = 1 THEN 1 ELSE ends[n - 1].i + 1,
               IF u[ends[n].i] = LF THEN ends[n].i - 1 ELSE ends[n].i)]
Lines(u, ends) ==
  [n \in 1..Len(ends) |->
     SubSeq(u, IF n = 1 THEN 1 ELSE ends[n - 1].i + 1, ends[n].i)]
\* str.splitlines(keepends=True) on "\n": each line with its "\n", a final
\* unterminated line too.
SplitKeepEnds(u) == Lines(u, LineEnds(u))

\* mtree.readlines() on a file holding the bytes data.
readlines(data) == SplitKeepEnds(UniversalNewlines(data))

\* ------------------------------------------------------ yaml: implicit tags
Letters == {"a", "b"}
IsInt(s) ==
  LET d == IF s # <<>> /\ s[1] = DASH THEN Tail(s) ELSE s
  IN  d # <<>> /\ \A i \in 1..Len(d) : d[i] = "1"

\* The tag the resolver gives a plain scalar: "?" for a text whose tag this
\* model does not decide (sexagesimal numbers, dates, words of other letters).
Resolve(s) ==
  IF IsInt(s) THEN "int"
  ELSE IF /\ \E i \in 1..Len(s) : s[i] \in Letters \cup {LF}
          /\ \A i \in 1..Len(s) : s[i] \in Letters \cup {"1", DASH, COLON, SP, SQ, LF}
       THEN "str"
       ELSE "?"

\* ---------------------------------------------------- yaml.dump: the emitter
FollowedByWs(s, i) == i + 1 > Len(s) \/ IsWs(s[i + 1])
PrecededByWs(s, i) == i = 1 \/ IsWs(s[i - 1])

\* Emitter.analyze_scalar, the flags that choose a block-context style.
block_indicators(s) ==
  \/ Len(s) >= 3 /\ SubSeq(s, 1, 3) = <<DASH, DASH, DASH>>
  \/ /\ s # <<>>
     /\ \/ s[1] \in {LB, RB, SQ, DQ, ",", "#", "{", "}", "&", "*", "!", "|", ">", "%", "@"}
        \/ s[1] \in {COLON, "?", DASH} /\ FollowedByWs(s, 1)
  \/ \E i \in 2..Len(s) : \/ s[i] = COLON /\ FollowedByWs(s, i)
                          \/ s[i] = "#" /\ PrecededByWs(s, i)
line_breaks(s) == \E i \in 1..Len(s) : s[i] = LF
special_characters(s) == \E i \in 1..Len(s) : s[i] \in {CR, "\t"}
break_space(s) == \E i \in 1..Len(s) - 1 : s[i] = LF /\ s[i + 1] = SP
space_break(s) == \E i \in 1..Len(s) - 1 : s[i] = SP /\ s[i + 1] = LF
allow_single_quoted(s) ==
  ~break_space(s) /\ ~space_break(s) /\ ~special_characters(s)
allow_block_plain(s) ==
  /\ s # <<>>
  /\ s[1] \notin {SP, LF} /\ s[Len(s)] \notin {SP, LF}
  /\ allow_single_quoted(s)
  /\ ~line_breaks(s)
  /\ ~block_indicators(s)

\* Emitter.choose_scalar_style for a scalar the representer gave no style.
choose_scalar_style(sc, simple_key) ==
  IF /\ sc.t = "int" \/ Resolve(sc.s) = "str"
     /\ ~(simple_key /\ (sc.s = <<>> \/ line_breaks(sc.s)))
     /\ allow_block_plain(sc.s)
  THEN "plain"
  ELSE IF allow_single_quoted(sc.s) /\ ~(simple_key /\ line_breaks(sc.s))
       THEN "single"
       ELSE "double"

best_indent == 2
Indent == [i \in 1..best_indent |-> SP]

\* Emitter.write_single_quoted: a quote is doubled; a run of n line breaks is
\* written as n + 1 breaks, and the text goes on at the scalar's indentation.
RECURSIVE write_single_quoted(_, _)
write_single_quoted(s, i) ==
  IF i > Len(s) THEN <<>>
  ELSE IF s[i] = SQ THEN <<SQ, SQ>> \o write_single_quoted(s, i + 1)
  ELSE IF s[i] = LF
       THEN LET n == CHOOSE k \in 1..Len(s) :
                       /\ \A j \in i..(i + k - 1) : j <= Len(s) /\ s[j] = LF
                       /\ (i + k > Len(s) \/ s[i + k] # LF)
            IN  [j \in 1..(n + 1) |-> LF] \o Indent
                  \o write_single_quoted(s, i + n)
       ELSE <<s[i]>> \o write_single_quoted(s, i + 1)

\* Emitter.write_double_quoted: the escapes of the characters met here.
RECURSIVE write_double_quoted(_)
write_double_quoted(s) ==
  IF s = <<>> THEN <<>>
  ELSE (CASE Head(s) = LF -> <<BS, "n">>
          [] Head(s) = CR -> <<BS, "r">>
          [] Head(s) = "\t" -> <<BS, "t">>
          [] Head(s) = DQ -> <<BS, DQ>>
          [] Head(s) = BS -> <<BS, BS>>
          [] OTHER -> <<Head(s)>>) \o write_double_quoted(Tail(s))

\* Emitter.process_scalar.
process_scalar(sc, simple_key) ==
  LET style == choose_scalar_style(sc, simple_key)
  IN  CASE style = "plain" -> sc.s
        [] style = "single" -> <<SQ>> \o write_single_quoted(sc.s, 1) \o <<SQ>>
        [] OTHER -> <<DQ>> \o write_double_quoted(sc.s) \o <<DQ>>

RECURSIVE emit_items(_)
emit_items(items) ==
  IF items = <<>> THEN <<>>
  ELSE <<DASH, SP>> \o process_scalar(Head(items), FALSE) \o <<LF>>
         \o emit_items(Tail(items))

\* One entry of the root block mapping: "key: scalar", "key: []" or "key:" and
\* an indentless block sequence.
emit_pair(p) ==
  process_scalar(p.k, TRUE) \o <<COLON>> \o
    (IF p.v.t # "seq" THEN <<SP>> \o process_scalar(p.v, FALSE) \o <<LF>>
     ELSE IF p.v.items = <<>> THEN <<SP, LB, RB, LF>>
     ELSE <<LF>> \o emit_items(p.v.items))

RECURSIVE emit_pairs(_)
emit_pairs(pairs) ==
  IF pairs = <<>> THEN <<>> ELSE emit_pair(Head(pairs)) \o emit_pairs(Tail(pairs))

\* Python's order on str keys over this alphabet: by code point, a prefix first.
Code(c) ==
  CASE c = LF -> 10 [] c = SP -> 32 [] c = SQ -> 39 [] c = DASH -> 45
    [] c = "1" -> 49 [] c = COLON -> 58 [] c = "a" -> 97 [] c = "b" -> 98
    [] OTHER -> 0
RECURSIVE StrLess(_, _)
StrLess(x, y) ==
  IF y = <<>> THEN FALSE
  ELSE IF x = <<>> THEN TRUE
  ELSE IF Head(x) = Head(y) THEN StrLess(Tail(x), Tail(y))
  ELSE Code(Head(x)) < Code(Head(y))
RECURSIVE IntVal(_)
IntVal(d) == IF d = <<>> THEN 0 ELSE 10 * IntVal(SubSeq(d, 1, Len(d) - 1)) + 1
\* key x sorts before key y (both of one type).
KeyLess(x, y) ==
  IF x.t = "str" THEN StrLess(x.s, y.s)
  ELSE LET nx == x.s[1] = DASH
           ny == y.s[1] = DASH
       IN  IF nx /\ ~ny THEN TRUE
           ELSE IF ~nx /\ ny THEN FALSE
           ELSE IF nx THEN IntVal(Tail(y.s)) < IntVal(Tail(x.s))
           ELSE IntVal(x.s) < IntVal(y.s)

\* BaseRepresenter.represent_mapping with sort_keys=True: sorted(mapping.items()),
\* and the dict's own order when the keys do not compare (int with str).
RECURSIVE sorted(_)
sorted(pairs) ==
  IF pairs = <<>> THEN <<>>
  ELSE LET m == CHOOSE i \in 1..Len(pairs) :
                  \A j \in 1..Len(pairs) : j = i \/ KeyLess(pairs[i].k, pairs[j].k)
           rest == [j \in 1..(Len(pairs) - 1) |-> IF j < m THEN pairs[j] ELSE pairs[j + 1]]
       IN  <<pairs[m]>> \o sorted(rest)
represent_mapping(pairs) ==
  IF \A i, j \in 1..Len(pairs) : pairs[i].k.t = pairs[j].k.t
  THEN sorted(pairs) ELSE pairs

\* yaml.dump(yaml_file) for a dict of scalars and lists of scalars.
dump(pairs) == emit_pairs(represent_mapping(pairs))

\* ------------------------------------------- yaml.safe_load: scanner and parser
Res(st, sc, nx, eol) == [st |-> st, sc |-> sc, nx |-> nx, eol |-> eol]
Fail(st) == Res(st, Str(<<>>), 0, FALSE)

\* The first position at or after i that holds no space.
SkipSpaces(t, i) ==
  CHOOSE j \in i..(Len(t) + 1) :
    /\ j > Len(t) \/ t[j] # SP
    /\ \A k \in i..(j - 1) : t[k] = SP

\* Scanner.scan_flow_scalar_breaks / the loop of scan_plain_spaces: from i, skip
\* indentation and line breaks.  nx: the next character that is neither, n: the
\* breaks passed, ls: the start of nx's line.
RECURSIVE ScanBreaks(_, _, _, _)
ScanBreaks(t, i, n, ls) ==
  LET j == SkipSpaces(t, i)
  IN  IF j <= Len(t) /\ t[j] = LF
      THEN ScanBreaks(t, j + 1, n + 1, j + 1)
      ELSE [nx |-> j, n |-> n, ls |-> ls]

\* Line folding: one break is a space, n + 1 breaks are n "\n".
Fold(n) == IF n = 0 THEN <<SP>> ELSE [k \in 1..n |-> LF]

\* Scanner.scan_flow_scalar after the opening quote q, which is SQ or DQ.
RECURSIVE scan_flow_scalar(_, _, _, _)
scan_flow_scalar(t, i, q, acc) ==
  IF i > Len(t) THEN Fail("err")
  ELSE IF t[i] = q
       THEN IF q = SQ /\ i + 1 <= Len(t) /\ t[i + 1] = SQ
            THEN scan_flow_scalar(t, i + 2, q, Append(acc, SQ))
            ELSE Res("ok", Str(acc), i + 1, FALSE)
  ELSE IF q = DQ /\ t[i] = BS
       THEN IF i + 1 > Len(t) THEN Fail("err")
            ELSE CASE t[i + 1] = "n" -> scan_flow_scalar(t, i + 2, q, Append(acc, LF))
                   [] t[i + 1] = "r" -> scan_flow_scalar(t, i + 2, q, Append(acc, CR))
                   [] t[i + 1] = "t" -> scan_flow_scalar(t, i + 2, q, Append(acc, "\t"))
                   [] t[i + 1] = DQ -> scan_flow_scalar(t, i + 2, q, Append(acc, DQ))
                   [] t[i + 1] = BS -> scan_flow_scalar(t, i + 2, q, Append(acc, BS))
                   [] OTHER -> Fail("unsup")
  ELSE IF t[i] \in {SP, LF}
       THEN LET j == SkipSpaces(t, i)
            IN  IF j > Len(t) THEN Fail("err")
                ELSE IF t[j] = LF
                     THEN LET b == ScanBreaks(t, j + 1, 0, j + 1)
                          IN  scan_flow_scalar(t, b.nx, q, acc \o Fold(b.n))
                     ELSE scan_flow_scalar(t, j, q, acc \o SubSeq(t, i, j - 1))
  ELSE scan_flow_scalar(t, i + 1, q, Append(acc, t[i]))

\* The end of a plain scalar's chunk: a space, a break, or ": ".
PlainChunkEnd(t, i) ==
  CHOOSE j \in i..(Len(t) + 1) :
    LET stop(k) == k > Len(t) \/ t[k] \in {SP, LF} \/ (t[k] = COLON /\ FollowedByWs(t, k))
    IN  stop(j) /\ \A k \in i..(j - 1) : ~stop(k)

\* Scanner.scan_plain in block context: pend is the folded white space that
\* joins the next chunk, if one follows; a line indented less than indent
\* ends the scalar.  nx: the ":" that ended it, or the next line with content.
RECURSIVE scan_plain(_, _, _, _, _)
scan_plain(t, i, indent, acc, pend) ==
  LET e == PlainChunkEnd(t, i)
      acc2 == acc \o pend \o SubSeq(t, i, e - 1)
      j == SkipSpaces(t, e)
  IN  IF e = i THEN Res("ok", acc, i, FALSE)
      ELSE IF j > Len(t) THEN Res("ok", acc2, j, TRUE)
      ELSE IF t[j] = LF
           THEN LET b == ScanBreaks(t, j + 1, 0, j + 1)
                IN  IF b.nx > Len(t) THEN Res("ok", acc2, b.nx, TRUE)
                    ELSE IF b.nx - b.ls < indent
                         THEN Res(IF b.nx = b.ls THEN "ok" ELSE "unsup", acc2, b.nx, TRUE)
                         ELSE scan_plain(t, b.nx, indent, acc2, Fold(b.n))
           ELSE scan_plain(t, j, indent, acc2, SubSeq(t, e, j - 1))

\* The characters no plain scalar starts with.
Indicator(t, i) ==
  \/ t[i] \in {LB, RB, SQ, DQ, ",", "#", "{", "}", "&", "*", "!", "|", ">", "%", "@"}
  \/ t[i] \in {COLON, "?", DASH} /\ FollowedByWs(t, i)

\* After a quoted scalar: the rest of its line is blank, and the next line with
\* content starts in column 0.  nx: that line, or past the end.
AfterBreak(sc, b, len) ==
  IF b.nx <= len /\ b.nx # b.ls THEN Fail("unsup") ELSE Res("ok", sc, b.nx, TRUE)
RestFrom(t, j, sc) ==
  IF j > Len(t) THEN Res("ok", sc, j, TRUE)
  ELSE IF t[j] = COLON /\ FollowedByWs(t, j) THEN Res("ok", sc, j, FALSE)
  ELSE IF t[j] # LF THEN Fail("err")
  ELSE AfterBreak(sc, ScanBreaks(t, j + 1, 0, j + 1), Len(t))
RestOfLine(t, i, sc) == RestFrom(t, SkipSpaces(t, i), sc)

AfterQuoted(t, r) == IF r.st # "ok" THEN r ELSE RestOfLine(t, r.nx, r.sc)
\* The resolver's tag on a plain scalar.
Tagged(r) ==
  IF r.st # "ok" THEN Fail(r.st)
  ELSE IF Resolve(r.sc) = "?" THEN Fail("unsup")
  ELSE Res("ok", [t |-> Resolve(r.sc), s |-> r.sc], r.nx, r.eol)

\* One scalar token at i, with its tag.
scan_scalar(t, i, indent) ==
  IF t[i] \in {SQ, DQ} THEN AfterQuoted(t, scan_flow_scalar(t, i + 1, t[i], <<>>))
  ELSE IF Indicator(t, i) THEN Fail("unsup")
  ELSE Tagged(scan_plain(t, i, indent, <<>>, <<>>))

Items(st, items, nx) == [st |-> st, items |-> items, nx |-> nx]
AtDash(t, i) == i <= Len(t) /\ t[i] = DASH /\ FollowedByWs(t, i)

\* The entries "- scalar" of a block sequence in column 0, from the "-" at i.
RECURSIVE parse_items(_, _, _)
item_done(t, items, r) ==
  IF r.st # "ok" THEN Items(r.st, items, 0)
  ELSE IF ~r.eol THEN Items("unsup", items, 0)
  ELSE IF AtDash(t, r.nx) THEN parse_items(t, r.nx, Append(items, r.sc))
  ELSE Items("ok", Append(items, r.sc), r.nx)
parse_item(t, items, j) ==
  IF j > Len(t) \/ t[j] = LF THEN Items("unsup", items, 0)
  ELSE item_done(t, items, scan_scalar(t, j, 1))
parse_items(t, i, items) == parse_item(t, items, SkipSpaces(t, i + 1))

\* The value after the ":" at p: a scalar or [] on the same line, or a block
\* sequence on the lines below.
Value(st, v, nx) == [st |-> st, v |-> v, nx |-> nx]
NoValue(st) == Value(st, List(<<>>), 0)
seq_value(s) == Value(s.st, List(s.items), s.nx)
value_below(t, b) ==
  IF b.nx = b.ls /\ AtDash(t, b.nx) THEN seq_value(parse_items(t, b.nx, <<>>))
  ELSE NoValue("unsup")
empty_flow(e) ==
  IF e.st = "ok" /\ e.eol THEN Value("ok", List(<<>>), e.nx) ELSE NoValue("unsup")
value_scalar(r) ==
  IF r.st # "ok" THEN NoValue(r.st)
  ELSE IF ~r.eol THEN NoValue("err")
  ELSE Value("ok", Scalar(r.sc), r.nx)
value_at(t, j) ==
  IF j > Len(t) THEN NoValue("unsup")
  ELSE IF t[j] = LF THEN value_below(t, ScanBreaks(t, j, 0, j))
  ELSE IF t[j] = LB
       THEN IF j + 1 <= Len(t) /\ t[j + 1] = RB
            THEN empty_flow(RestOfLine(t, j + 2, Str(<<>>)))
            ELSE NoValue("unsup")
  ELSE value_scalar(scan_scalar(t, j, 1))
parse_value(t, p) == value_at(t, SkipSpaces(t, p + 1))

\* For comparison, three other ways to store v at k: dict.setdefault (a present
\* key keeps its value), a new dict of the one entry, and list.extend on the
\* list already there.
setitem_setdefault(pairs, k, v) ==
  IF \E i \in 1..Len(pairs) : pairs[i].k = k
  THEN pairs
  ELSE Append(pairs, [k |-> k, v |-> v])
setitem_only(pairs, k, v) == <<[k |-> k, v |-> v]>>
setitem_extend(pairs, k, v) ==
  IF \E i \in 1..Len(pairs) : pairs[i].k = k
  THEN [i \in 1..Len(pairs) |->
          IF pairs[i].k = k /\ pairs[i].v.t = "seq"
          THEN [k |-> k, v |-> List(pairs[i].v.items \o v.items)]
          ELSE IF pairs[i].k = k THEN [k |-> k, v |-> v] ELSE pairs[i]]
  ELSE Append(pairs, [k |-> k, v |-> v])

\* dict.__setitem__: a present key keeps its place and takes the new value, an
\* absent key is added at the end.
setitem(pairs, k, v) ==
  IF \E i \in 1..Len(pairs) : pairs[i].k = k
  THEN [i \in 1..Len(pairs) |-> IF pairs[i].k = k THEN [k |-> k, v |-> v] ELSE pairs[i]]
  ELSE Append(pairs, [k |-> k, v |-> v])

\* The entries "key: value" of the root block mapping, from the key at i.
Entries(st, pairs) == [st |-> st, pairs |-> pairs]
RECURSIVE parse_entries(_, _, _)
entry_value(t, pairs, key, v) ==
  IF v.st # "ok" THEN Entries(v.st, pairs)
  ELSE parse_entries(t, v.nx, setitem(pairs, key, v.v))
entry_key(t, i, pairs, k) ==
  IF k.st # "ok" THEN Entries(k.st, pairs)
  ELSE IF k.eol THEN Entries("err", pairs)
  ELSE IF line_breaks(SubSeq(t, i, k.nx)) THEN Entries("unsup", pairs)
  ELSE entry_value(t, pairs, k.sc, parse_value(t, k.nx))
parse_entries(t, i, pairs) ==
  IF i > Len(t) THEN Entries("ok", pairs)
  ELSE IF AtDash(t, i) THEN Entries("err", pairs)
  ELSE entry_key(t, i, pairs, scan_scalar(t, i, 1))

Null == [t |-> "null", s |-> <<>>, items |-> <<>>]
Doc(kind, pairs, val) == [kind |-> kind, pairs |-> pairs, val |-> val]
None == Doc("val", <<>>, Null)
ParseError == Doc("err", <<>>, Null)
Unsupported == Doc("unsup", <<>>, Null)
Outcome(st, doc) == IF st = "ok" THEN doc ELSE IF st = "err" THEN ParseError ELSE Unsupported

\* A document must end where its root node ends.
seq_doc(t, s) ==
  Outcome(IF s.st = "ok" /\ s.nx <= Len(t) THEN "err" ELSE s.st, Doc("val", <<>>, List(s.items)))
empty_doc(t, e) ==
  IF e.st = "ok" /\ e.eol
  THEN Outcome(IF e.nx <= Len(t) THEN "err" ELSE "ok", Doc("val", <<>>, List(<<>>)))
  ELSE Unsupported
map_doc(m) == Outcome(m.st, Doc("map", m.pairs, Null))
\* A scalar that ends its line is the document; one that a ":" follows is the
\* first key of a block mapping.
scalar_or_map(t, i, r) ==
  IF r.st # "ok" THEN Outcome(r.st, None)
  ELSE IF r.eol
       THEN Outcome(IF r.nx <= Len(t) THEN "err" ELSE "ok", Doc("val", <<>>, Scalar(r.sc)))
       ELSE map_doc(parse_entries(t, i, <<>>))
load_node(t, i, ls) ==
  IF i > Len(t) THEN None
  ELSE IF i # ls THEN Unsupported
  ELSE IF AtDash(t, i) THEN seq_doc(t, parse_items(t, i, <<>>))
  ELSE IF t[i] = LB
       THEN IF i + 1 <= Len(t) /\ t[i + 1] = RB
            THEN empty_doc(t, RestOfLine(t, i + 2, Str(<<>>)))
            ELSE Unsupported
  ELSE scalar_or_map(t, i, scan_scalar(t, i, 0))
first_node(t, b) == load_node(t, b.nx, b.ls)
load_text(t) == first_node(t, ScanBreaks(t, 1, 0, 1))

\* yaml.safe_load(stream) on a file holding data: a dict (kind "map", the
\* entries in insertion order), another value (kind "val"), or an error.  The
\* reader takes "\r\n" and "\r" for line breaks, as the scanner does.
safe_load(data) == load_text(UniversalNewlines(data))

\* ------------------------------------------------------------ the command
VARIABLES
  argv,       \* sys.argv: the program name, then the positional arguments
  fs,         \* the file system: path -> [exists, mode, data]
  pc,         \* the statement of main() that runs next
  exc,        \* the exception that is propagating, "" when none is
  status,     \* <<>> while the process runs, then <<its exit status>>
  stdout,     \* the lines printed
  open,       \* the file objects that are open
  yaml_file,  \* main's variable yaml_file
  lines,      \* the value of mtree.readlines(), until it is assigned
  buf,        \* the text outfile holds in its buffer
  runs,       \* the invocations so far, this one included
  fs0,        \* history: the file system when this invocation started
  trace       \* history: the statements this invocation has run
vars == <<argv, fs, pc, exc, status, stdout, open, yaml_file, lines, buf, runs, fs0, trace>>

Prog == "append_manifests.py"
Paths == {"m.yaml", "n.txt", "none"}
Keys == {"a", "1"}

\* The lines a content file is made of: terminated ones, and a last line that
\* lacks its newline.
TermLines == {<<"a", LF>>, <<CR, LF>>, <<"a", SP, LF>>}
OpenLines == {<<"a">>, <<"1">>}
RECURSIVE Terminated(_)
Terminated(n) ==
  IF n = 0 THEN {<<>>} ELSE {x \o l : x \in Terminated(n - 1), l \in TermLines}
ContentTexts ==
  UNION {Terminated(n) : n \in 0..MaxLines}
    \cup UNION {{x \o l : x \in Terminated(n), l \in OpenLines} : n \in 0..(MaxLines - 1)}

\* The YAML files: mappings (keys out of order, a quoted key, a key that already
\* holds lines, an int key), an empty document, a sequence, and invalid YAML.
YamlTexts ==
  { <<"b", COLON, SP, "1", LF, "a", COLON, SP, "a", LF>>,
    <<SQ, "1", SQ, COLON, SP, "a", LF, "b", COLON, LF, DASH, SP, "a", LF>>,
    <<"a", COLON, LF, DASH, SP, SQ, "a", LF, LF, SP, SP, SQ, LF, "b", COLON, SP, "1", LF>>,
    <<"1", COLON, SP, "a", LF, "a", COLON, SP, "a", LF>>,
    <<>>,
    <<DASH, SP, "a", LF>>,
    <<"a", COLON, SP, "b", COLON, SP, "a", LF>> }

File(mode, data) == [exists |-> TRUE, mode |-> mode, data |-> data]
NoFile == [exists |-> FALSE, mode |-> "-", data |-> <<>>]
Modes == {<<"rw", "rw">>, <<"r", "rw">>, <<"rw", "-">>}

ArgvSet ==
  {<<Prog, y, c, k>> : y \in Paths, c \in Paths, k \in Keys}
    \cup {<<Prog>> \o [i \in 1..n |-> "m.yaml"] : n \in (0..MaxArgs) \ {3}}

NoLines == <<>>

Init ==
  /\ argv \in ArgvSet
  /\ \E md \in Modes, y \in YamlTexts, c \in ContentTexts :
       fs = [p \in Paths |-> CASE p = "m.yaml" -> File(md[1], y)
                               [] p = "n.txt" -> File(md[2], c)
                               [] OTHER -> NoFile]
  /\ fs0 = fs
  /\ pc = "main"
  /\ exc = ""
  /\ status = <<>>
  /\ stdout = <<>>
  /\ open = {}
  /\ yaml_file = None
  /\ lines = NoLines
  /\ buf = <<>>
  /\ runs = 1
  /\ trace = <<>>

\* sys.argv[i]
Arg(i) == argv[i + 1]
\* The key as a str: the keys of the model are one character long.
KeyOf(arg) == Str(<<arg>>)

Usage ==
  << "This utility gets a yaml file, a content file and a key and inserts the content from the contentfile into the yaml file at the given key",
     "Missing arguments: [YAML FILE] [CONTENT FILE] [KEY TO ADD THE CONTENT AT]" >>

Did(step) == trace' = Append(trace, step)

\* For comparison, a process whose status is 0 whatever ended it.
Exit_zero(e) ==
  /\ pc' = "exited"
  /\ status' = <<0>>

\* The process ends: exit(1), main() returning (status 0), or an exception
\* leaving main(): the interpreter prints the traceback and exits with 1.
Exit(e) ==
  /\ pc' = "exited"
  /\ status' = IF e = "" THEN <<0>> ELSE <<1>>
Continue(next) ==
  /\ pc' = next
  /\ UNCHANGED status

\* For comparison, a check that lets more than three arguments through.
WrongArgCount_AtLeast == Len(argv) < 4

\* if len(sys.argv) != 4: print(...); print(...); exit(1)
WrongArgCount == Len(argv) # 4
ArgCheck ==
  /\ pc = "main"
  /\ Did("main")
  /\ IF WrongArgCount
     THEN stdout' = stdout \o Usage /\ exc' = "SystemExit" /\ Exit("SystemExit")
     ELSE Continue("open_stream") /\ UNCHANGED <<stdout, exc>>
  /\ UNCHANGED <<argv, fs, open, yaml_file, lines, buf, runs, fs0>>

\* open(path, "r")
OpenError(path) ==
  IF ~fs[path].exists THEN "FileNotFoundError"
  ELSE IF fs[path].mode \notin {"rw", "r"} THEN "PermissionError"
  ELSE ""

\* with open(sys.argv[1], "r") as stream:
OpenStream ==
  /\ pc = "open_stream"
  /\ Did("open_stream")
  /\ IF OpenError(Arg(1)) # ""
     THEN exc' = OpenError(Arg(1)) /\ Exit(OpenError(Arg(1))) /\ UNCHANGED open
     ELSE open' = open \cup {"stream"} /\ Continue("safe_load") /\ UNCHANGED exc
  /\ UNCHANGED <<argv, fs, stdout, yaml_file, lines, buf, runs, fs0>>

\* For comparison, a load that takes a text that does not parse for an empty
\* mapping and goes on.
Loaded_recover(doc) ==
  IF doc.kind = "err"
  THEN yaml_file' = Doc("map", <<>>, Null) /\ UNCHANGED exc
  ELSE yaml_file' = doc /\ UNCHANGED exc

\* yaml_file = yaml.safe_load(stream): the read may fail, the text may not parse.
Loaded(doc) ==
  IF doc.kind = "err"
  THEN exc' = "YAMLError" /\ UNCHANGED yaml_file
  ELSE yaml_file' = doc /\ UNCHANGED exc
SafeLoad ==
  /\ pc = "safe_load"
  /\ Did("safe_load")
  /\ \/ exc' = "OSError" /\ UNCHANGED yaml_file
     \/ Loaded(safe_load(fs[Arg(1)].data))
  /\ Continue("exit_stream")
  /\ UNCHANGED <<argv, fs, stdout, open, lines, buf, runs, fs0>>

\* For comparison, two other ends of a block: one that closes the file only
\* when no exception is raised (open and close without with), and one that
\* runs the block again after an exception.
ExitWith_leak(at, handle, next) ==
  /\ pc = at
  /\ Did(at)
  /\ open' = IF exc # "" THEN open ELSE open \ {handle}
  /\ IF exc # "" THEN Exit(exc) ELSE Continue(next)
  /\ UNCHANGED <<argv, fs, exc, stdout, yaml_file, lines, buf, runs, fs0>>
ExitWith_retry(at, handle, next) ==
  /\ pc = at
  /\ Did(at)
  /\ open' = open \ {handle}
  /\ exc' = ""
  /\ IF exc # ""
     THEN Continue(IF handle = "stream" THEN "open_stream" ELSE "open_mtree")
     ELSE Continue(next)
  /\ UNCHANGED <<argv, fs, stdout, yaml_file, lines, buf, runs, fs0>>

\* The end of a with block: the file is closed, an exception goes on.
ExitWith(at, handle, next) ==
  /\ pc = at
  /\ Did(at)
  /\ open' = open \ {handle}
  /\ IF exc # "" THEN Exit(exc) ELSE Continue(next)
  /\ UNCHANGED <<argv, fs, exc, stdout, yaml_file, lines, buf, runs, fs0>>

ExitStream == ExitWith("exit_stream", "stream", "open_mtree")

\* with open(sys.argv[2], "r") as mtree:
OpenMtree ==
  /\ pc = "open_mtree"
  /\ Did("open_mtree")
  /\ IF OpenError(Arg(2)) # ""
     THEN exc' = OpenError(Arg(2)) /\ Exit(OpenError(Arg(2))) /\ UNCHANGED open
     ELSE open' = open \cup {"mtree"} /\ Continue("readlines") /\ UNCHANGED exc
  /\ UNCHANGED <<argv, fs, stdout, yaml_file, lines, buf, runs, fs0>>

\* A Python list of str.
StrList(ls) == [i \in 1..Len(ls) |-> Str(ls[i])]

\* mtree.readlines(), the right-hand side of line 18
Readlines ==
  /\ pc = "readlines"
  /\ Did("readlines")
  /\ \/ exc' = "OSError" /\ Continue("exit_mtree") /\ UNCHANGED lines
     \/ /\ lines' = StrList(readlines(fs[Arg(2)].data))
        /\ Continue("setitem")
        /\ UNCHANGED exc
  /\ UNCHANGED <<argv, fs, stdout, open, yaml_file, buf, runs, fs0>>

\* yaml_file[sys.argv[3]] = ...: only a dict takes a str key.
SetItem ==
  /\ pc = "setitem"
  /\ Did("setitem")
  /\ IF yaml_file.kind = "map"
     THEN /\ yaml_file' = Doc("map", setitem(yaml_file.pairs, KeyOf(Arg(3)), List(lines)), None.val)
          /\ UNCHANGED exc
     ELSE exc' = "TypeError" /\ UNCHANGED yaml_file
  /\ lines' = NoLines
  /\ Continue("exit_mtree")
  /\ UNCHANGED <<argv, fs, stdout, open, buf, runs, fs0>>

ExitMtree == ExitWith("exit_mtree", "mtree", "open_outfile")

\* For comparison, open(sys.argv[1], "a"): the file keeps what it holds.
OpenOutfile_append ==
  /\ pc = "open_outfile"
  /\ Did("open_outfile")
  /\ IF fs[Arg(1)].exists /\ fs[Arg(1)].mode # "rw"
     THEN exc' = "PermissionError" /\ Exit("PermissionError") /\ UNCHANGED open
     ELSE open' = open \cup {"outfile"} /\ Continue("write") /\ UNCHANGED exc
  /\ UNCHANGED <<argv, fs, stdout, yaml_file, lines, buf, runs, fs0>>

\* with open(sys.argv[1], "w") as outfile: the file is created or truncated.
OpenOutfile ==
  /\ pc = "open_outfile"
  /\ Did("open_outfile")
  /\ IF fs[Arg(1)].exists /\ fs[Arg(1)].mode # "rw"
     THEN exc' = "PermissionError" /\ Exit("PermissionError") /\ UNCHANGED <<open, fs>>
     ELSE /\ fs' = [fs EXCEPT ![Arg(1)] = File("rw", <<>>)]
          /\ open' = open \cup {"outfile"}
          /\ Continue("write")
          /\ UNCHANGED exc
  /\ UNCHANGED <<argv, stdout, yaml_file, lines, buf, runs, fs0>>

\* What a write that fails part way leaves of t: a proper prefix.
Prefixes(t) == {SubSeq(t, 1, n) : n \in {k \in 0..MaxPartial : k < Len(t)}}

\* outfile.write(yaml.dump(yaml_file)): the text stays in outfile's buffer, or
\* (a text larger than the buffer) goes to the file.  A write that fails leaves
\* what a failing close() leaves: see ExitOutfile.
Written(s) ==
  \/ buf' = s /\ UNCHANGED fs
  \/ fs' = [fs EXCEPT ![Arg(1)].data = s] /\ UNCHANGED buf
Write ==
  /\ pc = "write"
  /\ Did("write")
  /\ Written(dump(yaml_file.pairs))
  /\ Continue("exit_outfile")
  /\ UNCHANGED <<argv, exc, stdout, open, yaml_file, lines, runs, fs0>>

\* The end of the last with block: close() writes the buffer out, which may
\* fail part way, and closes the file either way.
ExitOutfile ==
  /\ pc = "exit_outfile"
  /\ Did("exit_outfile")
  /\ \/ /\ fs' = [fs EXCEPT ![Arg(1)].data = @ \o buf]
        /\ Exit("")
        /\ UNCHANGED exc
     \/ /\ \E part \in Prefixes(buf) : fs' = [fs EXCEPT ![Arg(1)].data = @ \o part]
        /\ exc' = "OSError"
        /\ Exit("OSError")
  /\ buf' = <<>>
  /\ open' = open \ {"outfile"}
  /\ UNCHANGED <<argv, stdout, yaml_file, lines, runs, fs0>>

\* One statement of the process.
Step ==
  \/ ArgCheck
  \/ OpenStream
  \/ SafeLoad
  \/ ExitStream
  \/ OpenMtree
  \/ Readlines
  \/ SetItem
  \/ ExitMtree
  \/ OpenOutfile
  \/ Write
  \/ ExitOutfile

\* The caller runs the command again with the same arguments after a run that
\* exited with 0 (the file grows without bound when the content file is the
\* YAML file itself: MaxText ends that).
Rerun ==
  /\ pc = "exited"
  /\ status = <<0>>
  /\ runs < MaxRuns
  /\ Len(fs[Arg(1)].data) <= MaxText
  /\ runs' = runs + 1
  /\ fs0' = fs
  /\ pc' = "main"
  /\ exc' = ""
  /\ status' = <<>>
  /\ stdout' = <<>>
  /\ yaml_file' = None
  /\ trace' = <<>>
  /\ UNCHANGED <<argv, fs, open, lines, buf>>

Next == Step \/ Rerun

Spec == Init /\ [][Next]_vars

\* --------------------------------------------------------------- properties
yaml_path == Arg(1)
content_path == Arg(2)
key == KeyOf(Arg(3))
ThreeArgs == Len(argv) = 4
Exited == pc = "exited"
Succeeded == Exited /\ status = <<0>>

Has(pairs, k) == \E i \in 1..Len(pairs) : pairs[i].k = k
Get(pairs, k) == pairs[CHOOSE i \in 1..Len(pairs) : pairs[i].k = k].v
IsPrefix(p, t) == Len(p) <= Len(t) /\ SubSeq(t, 1, Len(p)) = p

\* D and D': the document at yaml_path when the run started, and now.
Before == safe_load(fs0[yaml_path].data)
After == safe_load(fs[yaml_path].data)
\* lines_of(C) for the content file as the run found it.
ContentLines == List(StrList(readlines(fs0[content_path].data)))

Readable(f) == f.exists /\ f.mode \in {"rw", "r"}
\* Both files are there, readable, the YAML file writable, and no read or
\* write met an I/O error.
InputsFine ==
  /\ Readable(fs0[yaml_path]) /\ fs0[yaml_path].mode = "rw"
  /\ Readable(fs0[content_path])
  /\ exc # "OSError"

\* No run parses or emits a text outside the YAML subset modelled above.
InSubset ==
  /\ pc = "safe_load" => safe_load(fs[Arg(1)].data).kind # "unsup"
  /\ Succeeded => After.kind # "unsup"
  /\ yaml_file.kind # "unsup"

KeyIsLines(doc) ==
  doc.kind = "map" /\ Has(doc.pairs, key) /\ Get(doc.pairs, key) = ContentLines

\* C1 as stated: for EVERY valid YAML document at yaml_path (a mapping or not),
\* a three-argument run ends with the lines of the content file at the key.
C1_EveryValidDocument ==
  (Exited /\ ThreeArgs /\ InputsFine /\ Before.kind \in {"map", "val"})
    => (status = <<0>> /\ KeyIsLines(After))

\* C1, amended: for every valid YAML document whose root is a mapping, a
\* three-argument run leaves at yaml_path a document whose value at the key is
\* the ordered lines of the content file: the key is created if absent, and a
\* prior value is replaced, not merged or appended to.
C1_MappingDocument ==
  (Exited /\ ThreeArgs /\ InputsFine /\ Before.kind = "map")
    => (status = <<0>> /\ KeyIsLines(After))

C1_Witness ==
  /\ Succeeded /\ InputsFine /\ Before.kind = "map"
  /\ Has(Before.pairs, key)
  /\ Get(Before.pairs, key).t = "seq"
  /\ Get(Before.pairs, key) # ContentLines
  /\ ContentLines.items # <<>>
  /\ KeyIsLines(After)

\* C2: a successful run leaves every other top-level entry as it was: each key
\* of D other than the key is in D' with the value it had, and D' has no key
\* that is neither the key nor a key of D.
C2_OtherKeysUnchanged ==
  Succeeded =>
    /\ Before.kind = "map" /\ After.kind = "map"
    /\ \A i \in 1..Len(Before.pairs) :
         Before.pairs[i].k # key =>
           /\ Has(After.pairs, Before.pairs[i].k)
           /\ Get(After.pairs, Before.pairs[i].k) = Before.pairs[i].v
    /\ \A i \in 1..Len(After.pairs) :
         After.pairs[i].k = key \/ Has(Before.pairs, After.pairs[i].k)

C2_Witness ==
  /\ Succeeded
  /\ ~Has(Before.pairs, key)
  /\ \E i \in 1..Len(Before.pairs) :
       /\ Before.pairs[i].k = Str(<<"1">>)
       /\ Get(After.pairs, Str(<<"1">>)) = Before.pairs[i].v
  /\ Len(After.pairs) = Len(Before.pairs) + 1

\* C3: with any number of positional arguments other than three the command
\* prints the usage message and exits with status 1, having opened, read and
\* written no file: every file is as it was.
C3_WrongArgCount ==
  (Exited /\ ~ThreeArgs) =>
    /\ status = <<1>>
    /\ stdout = Usage
    /\ trace = <<"main">>
    /\ open = {}
    /\ fs = fs0

C3_Witness == Exited /\ Len(argv) = 5 /\ status = <<1>> /\ stdout = Usage

\* C4 as stated: a second run with the same three arguments leaves the value at
\* the key that the first run left.
C4_Idempotent ==
  (Succeeded /\ runs = 2) => Get(After.pairs, key) = Get(Before.pairs, key)

\* C4, amended: when content_path and yaml_path name different files, a second
\* run with the same three arguments leaves the value at the key that the first
\* run left: it overwrites the value, and neither appends to it nor doubles it.
C4_IdempotentDistinctFiles ==
  (Succeeded /\ runs = 2 /\ content_path # yaml_path)
    => Get(After.pairs, key) = Get(Before.pairs, key)

C4_Witness ==
  /\ Succeeded /\ runs = 2 /\ content_path # yaml_path
  /\ Get(After.pairs, key) = ContentLines
  /\ Len(ContentLines.items) = 2

\* A line terminator is "\n", "\r\n" or "\r"; N terminators and an unterminated
\* last line are N + 1 lines.
Terminators(t) ==
  Cardinality({i \in 1..Len(t) : t[i] = LF \/ (t[i] = CR /\ (i = Len(t) \/ t[i + 1] # LF))})
Unterminated(t) == t # <<>> /\ t[Len(t)] \notin {LF, CR}
RECURSIVE Concat(_)
Concat(items) == IF items = <<>> THEN <<>> ELSE Head(items).s \o Concat(Tail(items))
ReadlinesShape(items, t) ==
  Unterminated(t) =>
    /\ Len(items) = Terminators(t) + 1
    /\ \A i \in 1..(Len(items) - 1) :
         /\ items[i].s[Len(items[i].s)] = LF
         /\ \A j \in 1..(Len(items[i].s) - 1) : items[i].s[j] \notin {LF, CR}
    /\ \A j \in 1..Len(items[Len(items)].s) : items[Len(items)].s[j] \notin {LF, CR}
    /\ items[Len(items)].s # <<>>
    /\ Len(Concat(items)) = Len(t) - Cardinality({i \in 1..(Len(t) - 1) : t[i] = CR /\ t[i + 1] = LF})
    /\ \A i \in 1..Len(items) : items[i].t = "str"

\* C5: a content file of N lines whose last line lacks its newline gives exactly
\* N entries at the key, in file order, each with its line terminator kept (as
\* "\n") and only the last without one: both in the list read and in the
\* document written.
C5_Readlines ==
  /\ (pc = "setitem" => ReadlinesShape(lines, fs[content_path].data))
  /\ (Succeeded => /\ Has(After.pairs, key)
                   /\ ReadlinesShape(Get(After.pairs, key).items, fs0[content_path].data)
                   /\ Get(After.pairs, key) = ContentLines)

C5_Witness ==
  /\ Succeeded
  /\ Unterminated(fs0[content_path].data)
  /\ Terminators(fs0[content_path].data) = 1
  /\ Len(Get(After.pairs, key).items) = 2
  /\ \E i \in 1..Len(fs0[content_path].data) : fs0[content_path].data[i] = CR

\* What makes a three-argument run fail: a file that is missing or unreadable,
\* invalid YAML, a YAML file that cannot be written, or an exception raised.
MustFail ==
  \/ ~Readable(fs0[yaml_path])
  \/ ~Readable(fs0[content_path])
  \/ fs0[yaml_path].mode # "rw"
  \/ Before.kind = "err"
  \/ exc # ""
NoRepeat(t) == \A i, j \in 1..Len(t) : t[i] = t[j] => i = j

\* C6: a run exits with status 0 only if the YAML file holds the complete
\* document with the key in it; every I/O or parse failure ends the run with a
\* non-zero status, and no statement is run a second time.
C6_ExitStatus ==
  Exited =>
    /\ status = <<0>> =>
         /\ ThreeArgs /\ exc = ""
         /\ yaml_file.kind = "map" /\ Has(yaml_file.pairs, key)
         /\ fs[yaml_path].data = dump(yaml_file.pairs)
         /\ trace[Len(trace)] = "exit_outfile"
    /\ status = <<1>> \/ ~(ThreeArgs /\ MustFail)
    /\ NoRepeat(trace)

C6_Witness ==
  /\ Exited /\ ThreeArgs /\ status = <<1>>
  /\ exc = "OSError"
  /\ trace[Len(trace)] = "exit_outfile"
  /\ fs[yaml_path].data # dump(yaml_file.pairs)

\* C7: the file objects a run opens are open only inside their with blocks and
\* closed on every way out of them: no run that has exited, in success or in
\* failure, holds an open file.
C7_HandlesClosed ==
  /\ Exited => open = {}
  /\ "stream" \in open => pc \in {"safe_load", "exit_stream"}
  /\ "mtree" \in open => pc \in {"readlines", "setitem", "exit_mtree"}
  /\ "outfile" \in open => pc \in {"write", "exit_outfile"}
  /\ Cardinality(open) <= 1

C7_Witness ==
  /\ Exited /\ exc = "TypeError" /\ open = {}
  /\ trace[Len(trace)] = "exit_mtree"

NewText == dump(yaml_file.pairs)
Ran(step) == \E i \in 1..Len(trace) : trace[i] = step
\* C8 as stated: at every point of a run the file at yaml_path holds the
\* complete original document or the complete new one.
C8_Atomic ==
  ThreeArgs =>
    \/ fs[yaml_path].data = fs0[yaml_path].data
    \/ yaml_file.kind = "map" /\ fs[yaml_path].data = NewText

\* C8, amended: the YAML file is written once, in place and not atomically.
\* Until the run opens it for writing it holds the complete original document;
\* after a run that exits with 0 it holds the complete new document; in between,
\* and after a run that fails in the write step, it holds a prefix of the new
\* document, which may be empty or truncated.
C8_InPlace ==
  ThreeArgs =>
    /\ ~Ran("open_outfile") => fs[yaml_path].data = fs0[yaml_path].data
    /\ pc = "write" => fs[yaml_path].data = <<>>
    /\ (Ran("open_outfile") /\ exc # "PermissionError")
         => (fs[yaml_path].data = <<>> \/ IsPrefix(fs[yaml_path].data, NewText))
    /\ Succeeded => fs[yaml_path].data = NewText

C8_Witness ==
  /\ Exited /\ ThreeArgs /\ exc = "OSError"
  /\ trace[Len(trace)] = "exit_outfile"
  /\ fs[yaml_path].data # <<>>
  /\ fs[yaml_path].data # NewText
  /\ fs[yaml_path].data # fs0[yaml_path].data

\* A failure before the file is opened for writing.
FailsEarly ==
  \/ ~Readable(fs0[yaml_path])
  \/ ~Readable(fs0[content_path])
  \/ Before.kind \in {"err", "val"}

\* C9: the YAML file is opened for writing only after the parse, the read of
\* the content file and the assignment have succeeded; so a run that fails at
\* an earlier step leaves every file byte for byte as it was.
C9_WriteAfterSuccess ==
  ThreeArgs =>
    /\ Ran("open_outfile") =>
         /\ SubSeq(trace, 1, 8) = <<"main", "open_stream", "safe_load", "exit_stream",
                                    "open_mtree", "readlines", "setitem", "exit_mtree">>
         /\ yaml_file.kind = "map" /\ Has(yaml_file.pairs, key)
    /\ ~Ran("open_outfile") => fs = fs0
    /\ (fs = fs0 /\ ~Ran("open_outfile")) \/ ~FailsEarly

C9_Witness ==
  /\ Exited /\ ThreeArgs /\ status = <<1>>
  /\ Before.kind = "val"
  /\ exc = "TypeError"
  /\ fs = fs0
  /\ fs0[yaml_path].mode = "rw"

Order == <<"main", "open_stream", "safe_load", "exit_stream", "open_mtree", "readlines",
           "setitem", "exit_mtree", "open_outfile", "write", "exit_outfile">>
\* The statements run so far are the first ones of the pipeline, in its order
\* (a failed read skips the assignment).
InOrder(t) ==
  \/ IsPrefix(t, Order)
  \/ t = <<"main", "open_stream", "safe_load", "exit_stream", "open_mtree", "readlines", "exit_mtree">>

\* C10: a three-argument run is one linear pipeline that always terminates: it
\* parses the YAML, reads the lines, assigns the key and writes the file in that
\* order, each step at most once, and no later step before an earlier one.
\* Every step taken is the next one of the pipeline, a run takes no more steps
\* than the pipeline has, and a run that has not exited can take its next step
\* (for the write step this is its guard, pc = "write", alone).
CanStep == IF pc = "write" THEN TRUE ELSE ENABLED Step
C10_Pipeline ==
  /\ [](InOrder(trace) /\ NoRepeat(trace))
  /\ []((pc # "exited") = CanStep)
  /\ [][pc # "exited" => Len(trace') = Len(trace) + 1 /\ Len(trace') <= Len(Order)]_vars

C10_Witness ==
  /\ Succeeded /\ trace = Order

====
